---- MODULE Spec2Model ----
(***************************************************************************)
(* WebTicker: the history merge/dedup engine (merge_history, the bulk      *)
(* merge of the bootstrap importer), the updater run (load_history, log    *)
(* parsing, normalisation, merge, write of the three output files) and the *)
(* aggregation engine (summaries, rolling windows, symbol ranking).        *)
(*                                                                         *)
(* Representation of Python values                                         *)
(*   - an instant (datetime, UTC) is an integer number of ticks, with      *)
(*     TicksPerSec ticks to the second, so sub-second parts exist;         *)
(*   - an ISO-8601 string "YYYY-MM-DDTHH:MM:SSZ" produced by isoformat is  *)
(*     the integer number of whole seconds it denotes; these strings have  *)
(*     fixed width, so their lexicographic order is the numeric order;     *)
(*   - None in a time-valued field is the integer None;                    *)
(*   - None in a text-valued field is the string NULL, a missing           *)
(*     dictionary key is the string ABSENT;                                *)
(*   - a float amount is an integer number of units of                     *)
(*     10^-(ProfitDigits+1), so that rounding to ProfitDigits or           *)
(*     SnapDigits decimals is not the identity;                            *)
(*   - a JSON value of unknown type in a log payload is a tagged record    *)
(*     [k, n, s] (see Absent, Null, Num, NumTxt, Txt, Iso).                *)
(***************************************************************************)
EXTENDS Integers, Sequences, FiniteSets, TLC

----------------------------------------------------------------------------
(* Bounds of the model *)

TicksPerSec == 2
MaxWork == 5

----------------------------------------------------------------------------
(* Program constants *)

HISTORY_VERSION == 1
ProfitDigits == 5
SnapDigits == 2
SummaryDigits == 2
SecPerDay == 86400

NULL == "<null>"
ABSENT == "<absent>"
None == 0 - 1

RECURSIVE Pow10(_)
Pow10(n) == IF n = 0 THEN 1 ELSE 10 * Pow10(n - 1)

\* number of amount units in 1.0
Unit == Pow10(ProfitDigits + 1)

Day == SecPerDay * TicksPerSec

----------------------------------------------------------------------------
(* Python built-ins *)

\* round(x, digits) on an amount: nearest multiple of 10^-digits, ties to even
round(x, digits) ==
    LET m == Pow10(ProfitDigits + 1 - digits)
        q == x \div m
        r == x % m
    IN  IF 2 * r < m THEN q * m
        ELSE IF 2 * r > m THEN (q + 1) * m
        ELSE IF q % 2 = 0 THEN q * m ELSE (q + 1) * m

\* truth value of a text-valued field
Truthy(s) == s \notin {NULL, ABSENT, ""}

\* dict.get(key) on a text-valued field: a missing key reads as None
Get(s) == IF s = ABSENT THEN NULL ELSE s

\* dict.get(key, default) on a text-valued field
GetOr(s, default) == IF s = ABSENT THEN default ELSE s

\* a or b
Or(a, b) == IF Truthy(a) THEN a ELSE b

\* list.sort(key=...) / sorted(..., key=...): stable, ascending by key.
\* The elements are paired with their keys first, as the list sort does.
\* variant: an unstable sort, which puts a later element before its equals
RECURSIVE InsertSorted_unstable(_, _)
InsertSorted_unstable(sorted, x) ==
    IF sorted = << >> THEN << x >>
    ELSE IF sorted[Len(sorted)].key < x.key THEN Append(sorted, x)
    ELSE Append(InsertSorted_unstable(SubSeq(sorted, 1, Len(sorted) - 1), x),
                sorted[Len(sorted)])

RECURSIVE InsertSorted(_, _)
InsertSorted(sorted, x) ==
    IF sorted = << >> THEN << x >>
    ELSE IF sorted[Len(sorted)].key <= x.key THEN Append(sorted, x)
    ELSE Append(InsertSorted(SubSeq(sorted, 1, Len(sorted) - 1), x),
                sorted[Len(sorted)])

RECURSIVE SortFrom(_, _, _)
SortFrom(acc, pairs, i) ==
    IF i > Len(pairs) THEN acc
    ELSE SortFrom(InsertSorted(acc, pairs[i]), pairs, i + 1)

sort(seq, keys) ==
    LET pairs == [i \in 1..Len(seq) |-> [key |-> keys[i], val |-> seq[i]]]
        done == SortFrom(<< >>, pairs, 1)
    IN  [i \in 1..Len(seq) |-> done[i].val]

\* the keys of a list of trades and of a list of snapshots
ClosedAts(list) == [i \in 1..Len(list) |-> list[i].closed_at]
Timestamps(list) == [i \in 1..Len(list) |-> list[i].timestamp]
TicketsOf(list) == [i \in 1..Len(list) |-> list[i].ticket]

----------------------------------------------------------------------------
(* JSON values of a log payload *)

Absent == [k |-> "absent", n |-> 0, s |-> ""]
Null == [k |-> "null", n |-> 0, s |-> ""]
Num(x) == [k |-> "num", n |-> x, s |-> ""]
NumTxt(x) == [k |-> "numtxt", n |-> x, s |-> ""]
Txt(t) == [k |-> "txt", n |-> 0, s |-> t]
Iso(t) == [k |-> "iso", n |-> t, s |-> ""]

\* str(entry.get("ticket")): None prints as "None", a number as its digits
str(v) ==
    CASE v.k \in {"absent", "null"} -> "None"
      [] v.k \in {"num", "numtxt", "iso"} -> ToString(v.n)
      [] OTHER -> v.s

\* float(entry.get(key, 0.0)) raises on None and on a non-numeric string
float_raises(v) == v.k \in {"null", "txt", "iso"}

float(v) == IF v.k \in {"num", "numtxt"} THEN v.n ELSE 0

----------------------------------------------------------------------------
(* webticker_lib: timestamps *)

\* isoformat(value): UTC, microseconds dropped, "Z" suffix
isoformat(t) == t \div TicksPerSec

\* parse_iso_datetime applied to a stored ISO string (or None)
parse_iso_datetime(stored) ==
    IF stored = None THEN None ELSE stored * TicksPerSec

\* parse_iso_datetime applied to a field of a log payload
parse_iso_raises(v) ==
    \/ v.k = "txt" /\ v.s # ""
    \/ v.k = "numtxt"
    \/ v.k = "num" /\ v.n # 0

parse_iso_field(v) == IF v.k = "iso" THEN v.n ELSE None

----------------------------------------------------------------------------
(* webticker_lib: normalisation and serialisation *)

normalize_trade_raises(entry) ==
    \/ parse_iso_raises(entry.closed_at)
    \/ parse_iso_raises(entry.opened_at)
    \/ float_raises(entry.volume)
    \/ float_raises(entry.profit)

\* variant: the exit_reason of the record is kept where the comment is missing
normalize_trade_keeps_reason(entry) ==
    LET parsed == parse_iso_field(entry.closed_at)
    IN  [ticket |-> str(entry.ticket),
         symbol |-> GetOr(entry.symbol, "UNKNOWN"),
         volume |-> float(entry.volume),
         profit |-> float(entry.profit),
         order_type |-> Or(Get(entry.order_type),
                           Or(Get(entry.direction), Get(entry.side))),
         comment |-> Or(Or(Get(entry.comment), Get(entry.label)),
                        Get(entry.exit_reason)),
         opened_at |-> parse_iso_field(entry.opened_at),
         closed_at |-> IF parsed # None THEN parsed ELSE entry.log_timestamp,
         tp_label |-> Get(entry.tp_label),
         sl_label |-> Get(entry.sl_label)]

normalize_trade(entry) ==
    LET parsed == parse_iso_field(entry.closed_at)
    IN  [ticket |-> str(entry.ticket),
         symbol |-> GetOr(entry.symbol, "UNKNOWN"),
         volume |-> float(entry.volume),
         profit |-> float(entry.profit),
         order_type |-> Or(Get(entry.order_type),
                           Or(Get(entry.direction), Get(entry.side))),
         comment |-> Or(Get(entry.comment), Get(entry.label)),
         opened_at |-> parse_iso_field(entry.opened_at),
         closed_at |-> IF parsed # None THEN parsed ELSE entry.log_timestamp,
         tp_label |-> Get(entry.tp_label),
         sl_label |-> Get(entry.sl_label)]

normalize_snapshot_raises(entry) ==
    \/ parse_iso_raises(entry.timestamp)
    \/ float_raises(entry.balance)
    \/ float_raises(entry.equity)
    \/ float_raises(entry.floating)

normalize_snapshot(entry) ==
    LET parsed == parse_iso_field(entry.timestamp)
    IN  [timestamp |-> IF parsed # None THEN parsed ELSE entry.log_timestamp,
         balance |-> float(entry.balance),
         equity |-> float(entry.equity),
         floating |-> float(entry.floating)]

serialize_trade(trade) ==
    [ticket |-> trade.ticket,
     symbol |-> Get(trade.symbol),
     volume |-> round(trade.volume, ProfitDigits),
     profit |-> round(trade.profit, ProfitDigits),
     order_type |-> Get(trade.order_type),
     comment |-> Get(trade.comment),
     opened_at |-> IF trade.opened_at # None THEN isoformat(trade.opened_at)
                   ELSE None,
     closed_at |-> IF trade.closed_at # None THEN isoformat(trade.closed_at)
                   ELSE None,
     tp_label |-> Get(trade.tp_label),
     sl_label |-> Get(trade.sl_label)]

serialize_snapshot(snapshot) ==
    [timestamp |-> isoformat(snapshot.timestamp),
     balance |-> round(snapshot.balance, SnapDigits),
     equity |-> round(snapshot.equity, SnapDigits),
     floating |-> round(snapshot.floating, SnapDigits)]

----------------------------------------------------------------------------
(* TKB-WebTicker: the merge engine *)

EmptyHistory == [version |-> HISTORY_VERSION, trades |-> << >>, snapshots |-> << >>]

\* variant: the set of existing tickets is not seeded from the history
Tickets_unseeded(list) == {}

Tickets(list) == {list[i].ticket : i \in 1..Len(list)}
Stamps(list) == {list[i].timestamp : i \in 1..Len(list)}

\* variant: an appended ticket is not added to the set of existing tickets
RECURSIVE merge_trade_loop_noadd(_, _, _)
merge_trade_loop_noadd(st, trades, i) ==
    IF i > Len(trades) THEN st
    ELSE LET ticket == trades[i].ticket
         IN  IF ticket = "" \/ ticket \in st.existing
             THEN merge_trade_loop_noadd(st, trades, i + 1)
             ELSE merge_trade_loop_noadd(
                      [list |-> Append(st.list, serialize_trade(trades[i])),
                       existing |-> st.existing,
                       appended |-> TRUE], trades, i + 1)

\* the loop over the new trades: st = [list, existing, appended]
RECURSIVE merge_trade_loop(_, _, _)
merge_trade_loop(st, trades, i) ==
    IF i > Len(trades) THEN st
    ELSE LET ticket == trades[i].ticket
         IN  IF ticket = "" \/ ticket \in st.existing
             THEN merge_trade_loop(st, trades, i + 1)
             ELSE merge_trade_loop(
                      [list |-> Append(st.list, serialize_trade(trades[i])),
                       existing |-> st.existing \cup {ticket},
                       appended |-> TRUE], trades, i + 1)

\* the loop over the new snapshots
RECURSIVE merge_snapshot_loop(_, _, _)
merge_snapshot_loop(st, snapshots, i) ==
    IF i > Len(snapshots) THEN st
    ELSE LET serialized == serialize_snapshot(snapshots[i])
             stamp == serialized.timestamp
         IN  IF stamp = None \/ stamp \in st.existing
             THEN merge_snapshot_loop(st, snapshots, i + 1)
             ELSE merge_snapshot_loop(
                      [list |-> Append(st.list, serialized),
                       existing |-> st.existing \cup {stamp},
                       appended |-> TRUE], snapshots, i + 1)

merge_history(history, trades, snapshots) ==
    LET t == merge_trade_loop([list |-> history.trades,
                               existing |-> Tickets(history.trades),
                               appended |-> FALSE], trades, 1)
        s == merge_snapshot_loop([list |-> history.snapshots,
                                  existing |-> Stamps(history.snapshots),
                                  appended |-> FALSE], snapshots, 1)
    IN  [version |-> HISTORY_VERSION,
         trades |-> IF t.appended
                    THEN sort(t.list, ClosedAts(t.list))
                    ELSE t.list,
         snapshots |-> IF s.appended
                       THEN sort(s.list, Timestamps(s.list))
                       ELSE s.list]

----------------------------------------------------------------------------
(* TKB-WebTicker-initial: the bulk merge of the bootstrap importer *)

\* merged[ticket] = entry on an insertion-ordered dict
\* variant: a ticket that is in the map already keeps its entry
DictPut_keep(merged, entry) ==
    IF \E i \in 1..Len(merged) : merged[i].ticket = entry.ticket
    THEN merged
    ELSE Append(merged, entry)

\* merged[ticket] = {...}: a new key goes last, a known key keeps its place
DictPut(merged, entry) ==
    IF \E i \in 1..Len(merged) : merged[i].ticket = entry.ticket
    THEN [i \in 1..Len(merged) |->
              IF merged[i].ticket = entry.ticket THEN entry ELSE merged[i]]
    ELSE Append(merged, entry)

RECURSIVE merge_trades_loop(_, _, _)
merge_trades_loop(merged, trades, i) ==
    IF i > Len(trades) THEN merged
    ELSE LET trade == trades[i]
             ticket == IF Truthy(trade.ticket) THEN trade.ticket ELSE ""
         IN  IF ticket = ""
             THEN merge_trades_loop(merged, trades, i + 1)
             ELSE merge_trades_loop(
                      DictPut(merged,
                              [ticket |-> ticket,
                               symbol |-> Get(trade.symbol),
                               volume |-> trade.volume,
                               profit |-> trade.profit,
                               order_type |-> Get(trade.order_type),
                               comment |-> Get(trade.comment),
                               opened_at |-> trade.opened_at,
                               closed_at |-> trade.closed_at,
                               tp_label |-> ABSENT,
                               sl_label |-> ABSENT]),
                      trades, i + 1)

RECURSIVE SelectClosed(_, _)
SelectClosed(merged, i) ==
    IF i > Len(merged) THEN << >>
    ELSE IF merged[i].closed_at # None
         THEN << merged[i] >> \o SelectClosed(merged, i + 1)
         ELSE SelectClosed(merged, i + 1)

\* merge_trades(first, second)
merge_trades(first, second) ==
    LET merged == merge_trades_loop(merge_trades_loop(<< >>, first, 1), second, 1)
        normalized == SelectClosed(merged, 1)
    IN  sort(normalized, ClosedAts(normalized))

build_history(trades, snapshots) ==
    [version |-> HISTORY_VERSION,
     trades |-> [i \in 1..Len(trades) |-> serialize_trade(trades[i])],
     snapshots |-> [i \in 1..Len(snapshots) |-> serialize_snapshot(snapshots[i])]]

----------------------------------------------------------------------------
(* Log payloads and statement rows the model feeds to the program *)

\* the reference instant of the inputs, a whole second
Now0 == 1000 * Day

BlankEntry(type, log_ts) ==
    [type |-> type, log_timestamp |-> log_ts,
     ticket |-> Absent, symbol |-> ABSENT, volume |-> Absent, profit |-> Absent,
     order_type |-> ABSENT, direction |-> ABSENT, side |-> ABSENT,
     comment |-> ABSENT, label |-> ABSENT,
     opened_at |-> Absent, closed_at |-> Absent,
     tp_label |-> ABSENT, sl_label |-> ABSENT, exit_reason |-> ABSENT,
     timestamp |-> Absent, balance |-> Absent, equity |-> Absent,
     floating |-> Absent]

LogTrade(ticket, closed, profit, symbol, log_ts) ==
    [BlankEntry("trade", log_ts) EXCEPT !.ticket = ticket, !.closed_at = closed,
                                        !.profit = profit, !.symbol = symbol,
                                        !.volume = Num(Unit \div 10)]

LogSnapshot(stamp, balance, log_ts) ==
    [BlankEntry("snapshot", log_ts) EXCEPT !.timestamp = stamp,
                                           !.balance = balance,
                                           !.equity = balance,
                                           !.floating = Num(0)]

\* payloads that normalise without an error: two trades sharing the ticket
\* "1" (a number and a string), a trade closing between them, a trade with
\* an empty ticket, two snapshots within one second and an earlier snapshot
\* stamped by its log line
GoodEntries ==
    << LogTrade(Num(1), Iso(Now0 - Day), Num(10 * Unit), "EURUSD", Now0 - Day),
       LogTrade(Txt("1"), Iso(Now0 - 10 * Day), Num(0 - 5 * Unit), "EURUSD", Now0),
       LogTrade(Txt("2"), Iso(Now0 - 7 * Day + 1), Num(4 - 5 * Unit), "XAUUSD", Now0),
       LogTrade(Txt(""), Iso(Now0 - Day), Num(Unit), "EURUSD", Now0),
       LogSnapshot(Iso(Now0 - Day), Num(100 * Unit), Now0 - Day),
       LogSnapshot(Iso(Now0 - Day + 1), Num(200 * Unit + 49990), Now0),
       LogSnapshot(Absent, Num(300 * Unit), Now0 - 2 * Day) >>

\* rows of the account statement, as parse_statement_html yields them
StatementTrade(ticket, closed, profit) ==
    [ticket |-> ticket, symbol |-> "EURUSD", volume |-> Unit \div 10,
     profit |-> profit, order_type |-> "buy", comment |-> "",
     opened_at |-> closed - Day, closed_at |-> closed,
     tp_label |-> ABSENT, sl_label |-> ABSENT]

Statements ==
    << << >>,
       << StatementTrade("4", Now0 - 2 * Day, 0 - Unit),
          StatementTrade("1", Now0 - 30 * Day, 7 * Unit) >> >>

SeqsUpTo(S, n) == UNION {[1..k -> S] : k \in 0..n}

\* the logs of at most n entries, each entry named by its place in GoodEntries
Batches(n) == SeqsUpTo(1..Len(GoodEntries), n)

Entries(log) == [i \in 1..Len(log) |-> GoodEntries[log[i]]]

RECURSIVE SelectType(_, _, _)
SelectType(entries, type, i) ==
    IF i > Len(entries) THEN << >>
    ELSE IF entries[i].type = type
         THEN << entries[i] >> \o SelectType(entries, type, i + 1)
         ELSE SelectType(entries, type, i + 1)

\* [normalize_trade(entry) for entry in entries if entry.get("type") == "trade"]
trades_from_log(entries) ==
    LET sel == SelectType(entries, "trade", 1)
    IN  [i \in 1..Len(sel) |-> normalize_trade(sel[i])]

\* [normalize_snapshot(entry) for entry in entries if entry.get("type") == "snapshot"]
snapshots_from_log(entries) ==
    LET sel == SelectType(entries, "snapshot", 1)
    IN  [i \in 1..Len(sel) |-> normalize_snapshot(sel[i])]

----------------------------------------------------------------------------
(* State *)

VARIABLES
    hist,         \* the history dictionary the merge engine works on
    work,         \* merges and imports so far, plus the entries they read
    batch,        \* the log of the latest merge (places in GoodEntries)
    before,       \* the history as it was before the latest merge
    phase,        \* "init", "boot", "merged" or "again"
    fromEmpty,    \* no bootstrap import has written the history
    firstTrade,   \* per ticket, the first trade offered to merge_history
    firstSnap,    \* per timestamp, the first snapshot offered
    offered       \* every record offered to merge_history, serialised

mvars == << hist, work, batch, before, phase, fromEmpty, firstTrade, firstSnap,
            offered >>

VARIABLES
    aggLog,       \* the log behind the history that is aggregated
    aggNow,       \* the value of datetime.now() in build_windows
    aggTrades,    \* the trades _materialize_trades returned
    aggPc,        \* "off", "input" or "done"
    report        \* the payload build_payload returned, in a list

avars == << aggLog, aggNow, aggTrades, aggPc, report >>

VARIABLES
    jsonFile,     \* the history JSON on disk: [kind, history, run]
    htmlFile,     \* the HTML dashboard on disk
    markerFile,   \* the marker file on disk
    pc,           \* where main() stands, "idle" between runs
    runNo,        \* number of runs started
    runWork,      \* runs started so far, plus the log lines they read
    runHistory,    \* the history dictionary of the run
    runEntries,    \* what load_state_entries returned (places in Payloads)
    runPayload,    \* what build_payload returned, in a list
    outcome,      \* how the latest run ended
    start,        \* the three files as they were when the run started
    runLog        \* the state log the run read, in a list

rvars == << jsonFile, htmlFile, markerFile, pc, runNo, runWork, runHistory,
            runEntries, runPayload, outcome, start, runLog >>

VARIABLES
    arg,          \* the arguments of a function called on its own
    result,       \* what the call returned or raised, in a list
    called        \* the function that was called, "none" before the call

fvars == << arg, result, called >>

vars == << mvars, avars, rvars, fvars >>

----------------------------------------------------------------------------
(* The merge engine on its own: SpecMerge *)

\* records of a list whose key was not seen before, first occurrence only
FirstSeen(seenKeys, list, keys) ==
    { list[i] : i \in { j \in 1..Len(list) :
                    /\ keys[j] \notin seenKeys
                    /\ \A h \in 1..(j - 1) : keys[h] # keys[j] } }

Serialized(trades, snapshots) ==
    [trades |-> [i \in 1..Len(trades) |-> serialize_trade(trades[i])],
     snapshots |-> [i \in 1..Len(snapshots) |-> serialize_snapshot(snapshots[i])]]

Range(list) == {list[i] : i \in 1..Len(list)}

NoFile == [exists |-> FALSE, run |-> 0]

FnIdle ==
    /\ arg = << >>
    /\ result = << >>
    /\ called = "off"

RunIdle ==
    /\ jsonFile = [kind |-> "missing", history |-> EmptyHistory, run |-> 0]
    /\ htmlFile = NoFile
    /\ markerFile = NoFile
    /\ pc = "off"
    /\ runNo = 0
    /\ runWork = 0
    /\ runHistory = EmptyHistory
    /\ runEntries = << >>
    /\ runPayload = << >>
    /\ outcome = "none"
    /\ start = << jsonFile, htmlFile, markerFile >>
    /\ runLog = << >>

AggIdle ==
    /\ aggLog = << >>
    /\ aggNow = Now0
    /\ aggTrades = << >>
    /\ aggPc = "off"
    /\ report = << >>

MergeIdle ==
    /\ hist = EmptyHistory
    /\ work = 0
    /\ batch = << >>
    /\ before = EmptyHistory
    /\ phase = "init"
    /\ fromEmpty = TRUE
    /\ firstTrade = {}
    /\ firstSnap = {}
    /\ offered = [trades |-> {}, snapshots |-> {}]

InitMerge == MergeIdle /\ AggIdle /\ RunIdle /\ FnIdle

\* one call merge_history(history, trades_from_log, snapshots_from_log)
MergeCall(log) ==
    LET entries == Entries(log)
        trades == trades_from_log(entries)
        snapshots == snapshots_from_log(entries)
        ser == Serialized(trades, snapshots)
    IN  /\ work + 1 + Len(entries) <= MaxWork
        /\ hist' = merge_history(hist, trades, snapshots)
        /\ work' = work + 1 + Len(entries)
        /\ batch' = log
        /\ before' = hist
        /\ phase' = "merged"
        /\ firstTrade' = firstTrade \cup FirstSeen({r.ticket : r \in firstTrade},
                                                  ser.trades, TicketsOf(ser.trades))
        /\ firstSnap' = firstSnap \cup FirstSeen({r.timestamp : r \in firstSnap},
                                                ser.snapshots, Timestamps(ser.snapshots))
        /\ offered' = [trades |-> offered.trades \cup Range(ser.trades),
                       snapshots |-> offered.snapshots \cup Range(ser.snapshots)]
        /\ UNCHANGED << fromEmpty, avars, rvars, fvars >>

\* merge_history invoked again with the inputs of the latest call
MergeAgain ==
    /\ phase = "merged"
    /\ hist' = merge_history(hist, trades_from_log(Entries(batch)),
                             snapshots_from_log(Entries(batch)))
    /\ before' = hist
    /\ phase' = "again"
    /\ UNCHANGED << work, batch, fromEmpty, firstTrade, firstSnap, offered >>
    /\ UNCHANGED << avars, rvars, fvars >>

\* the bootstrap importer: merge_trades, build_history
BootstrapImport(statement, log) ==
    /\ work = 0
    /\ hist' = build_history(merge_trades(statement, trades_from_log(Entries(log))),
                             snapshots_from_log(Entries(log)))
    /\ work' = work + 1 + Len(log)
    /\ batch' = log
    /\ before' = hist
    /\ phase' = "boot"
    /\ fromEmpty' = FALSE
    /\ UNCHANGED << firstTrade, firstSnap, offered, avars, rvars, fvars >>

NextMerge ==
    \/ \E log \in Batches(MaxWork - work - 1) : MergeCall(log)
    \/ MergeAgain
    \/ \E i \in 1..Len(Statements) :
           \E log \in Batches(IF work = 0 THEN MaxWork - 1 ELSE 0 - 1) :
               BootstrapImport(Statements[i], log)

SpecMerge == InitMerge /\ [][NextMerge]_vars

----------------------------------------------------------------------------
(* TKB-WebTicker: the aggregation engine *)

TopCount == 5

\* WINDOWS: the window keys in dictionary order, and their lengths in days
WINDOWS == << [key |-> "7d", days |-> 7],
              [key |-> "30d", days |-> 30],
              [key |-> "365d", days |-> 365] >>

\* what a ZeroDivisionError would leave in place of a quotient
ZeroDivisionError == 0 - 1

RECURSIVE SelectParsed(_, _)
SelectParsed(entries, i) ==
    IF i > Len(entries) THEN << >>
    ELSE LET entry == entries[i]
             closed_at == parse_iso_datetime(entry.closed_at)
         IN  IF closed_at = None THEN SelectParsed(entries, i + 1)
             ELSE << [ticket |-> entry.ticket,
                      symbol |-> entry.symbol,
                      volume |-> entry.volume,
                      profit |-> entry.profit,
                      order_type |-> entry.order_type,
                      comment |-> entry.comment,
                      opened_at |-> parse_iso_datetime(entry.opened_at),
                      closed_at |-> closed_at,
                      tp_label |-> entry.tp_label,
                      sl_label |-> entry.sl_label,
                      exit_reason |-> NULL] >>
                  \o SelectParsed(entries, i + 1)

_materialize_trades(history) ==
    LET trades == SelectParsed(history.trades, 1)
    IN  sort(trades, ClosedAts(trades))

RECURSIVE SumProfit(_, _)
SumProfit(trades, i) ==
    IF i > Len(trades) THEN 0 ELSE trades[i].profit + SumProfit(trades, i + 1)

\* a / b * 100 rounded to SummaryDigits decimals, as an amount
percent(a, b) ==
    IF b = 0 THEN ZeroDivisionError
    ELSE LET scale == Pow10(SummaryDigits + 2)
             q == (a * scale) \div b
             r == (a * scale) % b
             k == IF 2 * r < b THEN q
                  ELSE IF 2 * r > b THEN q + 1
                  ELSE IF q % 2 = 0 THEN q ELSE q + 1
         IN  k * Pow10(ProfitDigits + 1 - SummaryDigits)

\* variant: a break-even trade counts as a win
wins_nonneg(trades) ==
    Cardinality({i \in 1..Len(trades) : trades[i].profit >= 0})

wins(trades) ==
    Cardinality({i \in 1..Len(trades) : trades[i].profit > 0})

losses(trades) ==
    Cardinality({i \in 1..Len(trades) : trades[i].profit < 0})

summarize_trades(trades) ==
    IF trades = << >>
    THEN [profit |-> 0, trades |-> 0, wins |-> 0, losses |-> 0, win_rate |-> 0]
    ELSE LET total == Len(trades)
         IN  [profit |-> round(SumProfit(trades, 1), SummaryDigits),
              trades |-> total,
              wins |-> wins(trades),
              losses |-> losses(trades),
              win_rate |-> IF total # 0 THEN percent(wins(trades), total) ELSE 0]

----------------------------------------------------------------------------
(* TKB-WebTicker: the exit classifier and the trade summary *)

_DEFAULT_EXIT_TYPE == "manual"
_TP_REASON_HINTS == {"deal_reason_tp", "tp_hit", "takeprofit", "take profit", "target_tp"}
_SL_REASON_HINTS == {"deal_reason_sl", "sl_hit", "stoploss", "stop loss", "target_sl"}
_TP_COMMENT_HINTS == {"[tp", " tp", "tp ", "tp:", "tp-", "tp hit", "take profit"}
_SL_COMMENT_HINTS == {"[sl", " sl", "sl ", "sl:", "sl-", "sl hit", "stop loss"}

\* the texts the model uses: the hints that occur in _normalize_text(value)
HintsIn(value) ==
    CASE value = "TP hit" -> {"tp ", "tp hit"}
      [] value = "[sl] stop" -> {"[sl"}
      [] value = "closed, SL hit" -> {" sl", "sl ", "sl hit"}
      [] value = "DEAL_REASON_TP" -> {"deal_reason_tp"}
      [] value = "deal_reason_sl" -> {"deal_reason_sl"}
      [] value = "tp_hit, sl_hit" -> {"tp_hit", "sl_hit", " sl"}
      [] value = "TP hit, SL hit" -> {"tp ", "tp hit", " sl", "sl ", "sl hit"}
      [] OTHER -> {}

\* the texts the model uses: str(order_type).upper()
upper(value) ==
    CASE value = "buy" -> "BUY"
      [] value = "sell" -> "SELL"
      [] value = "Sell Limit" -> "SELL LIMIT"
      [] value = "balance" -> "BALANCE"
      [] OTHER -> value

\* the texts the model uses: the sides that occur in an upper-cased order type
SidesIn(side) ==
    CASE side \in {"BUY", "BUY LIMIT"} -> {"BUY"}
      [] side \in {"SELL", "SELL LIMIT"} -> {"SELL"}
      [] OTHER -> {}

_contains_hint(value, hints) ==
    IF ~Truthy(value) THEN FALSE ELSE HintsIn(value) \cap hints # {}

\* variant: both labels are looked at before any hint
determine_exit_type_labels_first(trade) ==
    IF Truthy(trade.tp_label) THEN "tp"
    ELSE IF Truthy(trade.sl_label) THEN "sl"
    ELSE IF _contains_hint(trade.exit_reason, _TP_REASON_HINTS) THEN "tp"
    ELSE IF _contains_hint(trade.comment, _TP_COMMENT_HINTS) THEN "tp"
    ELSE IF _contains_hint(trade.exit_reason, _SL_REASON_HINTS) THEN "sl"
    ELSE IF _contains_hint(trade.comment, _SL_COMMENT_HINTS) THEN "sl"
    ELSE _DEFAULT_EXIT_TYPE

determine_exit_type(trade) ==
    IF Truthy(trade.tp_label) THEN "tp"
    ELSE IF _contains_hint(trade.exit_reason, _TP_REASON_HINTS) THEN "tp"
    ELSE IF _contains_hint(trade.comment, _TP_COMMENT_HINTS) THEN "tp"
    ELSE IF Truthy(trade.sl_label) THEN "sl"
    ELSE IF _contains_hint(trade.exit_reason, _SL_REASON_HINTS) THEN "sl"
    ELSE IF _contains_hint(trade.comment, _SL_COMMENT_HINTS) THEN "sl"
    ELSE _DEFAULT_EXIT_TYPE

_build_exit_label(exit_type) ==
    CASE exit_type = "tp" -> "Exit: TP"
      [] exit_type = "sl" -> "Exit: SL"
      [] OTHER -> "Exit Manual"

_canonical_side(order_type) ==
    IF ~Truthy(order_type) THEN ""
    ELSE LET side == upper(order_type)
         IN  IF "BUY" \in SidesIn(side) THEN "BUY"
             ELSE IF "SELL" \in SidesIn(side) THEN "SELL"
             ELSE side

\* summarize_single_trade(trade, include_comment=...); None is << >>
summarize_single_trade(trade, include_comment) ==
    IF trade = << >> THEN << >>
    ELSE LET t == trade[1]
             exit_type == determine_exit_type(t)
         IN  IF include_comment
             THEN << [ticket |-> t.ticket, symbol |-> t.symbol,
                      profit |-> round(t.profit, SummaryDigits),
                      volume |-> round(t.volume, SummaryDigits),
                      order_type |-> _canonical_side(t.order_type),
                      closed_at |-> isoformat(t.closed_at),
                      exit |-> _build_exit_label(exit_type),
                      exit_type |-> exit_type,
                      comment |-> t.comment] >>
             ELSE << [ticket |-> t.ticket, symbol |-> t.symbol,
                      profit |-> round(t.profit, SummaryDigits),
                      volume |-> round(t.volume, SummaryDigits),
                      order_type |-> _canonical_side(t.order_type),
                      closed_at |-> isoformat(t.closed_at),
                      exit |-> _build_exit_label(exit_type),
                      exit_type |-> exit_type] >>

----------------------------------------------------------------------------
(* TKB-WebTicker: rolling windows and the symbol ranking *)

\* variant: a trade closed exactly at the cutoff is left out
in_window_strict(trade, cutoff) == trade.closed_at > cutoff

\* trade["closed_at"] >= cutoff
in_window(trade, cutoff) == trade.closed_at >= cutoff

RECURSIVE SelectWindow(_, _, _)
SelectWindow(trades, cutoff, i) ==
    IF i > Len(trades) THEN << >>
    ELSE IF in_window(trades[i], cutoff)
         THEN << trades[i] >> \o SelectWindow(trades, cutoff, i + 1)
         ELSE SelectWindow(trades, cutoff, i + 1)

\* variant: the last of the maxima
max_profit_last(trades) ==
    IF trades = << >> THEN << >>
    ELSE LET i == CHOOSE k \in 1..Len(trades) :
                      /\ \A j \in 1..Len(trades) : trades[j].profit <= trades[k].profit
                      /\ \A j \in (k + 1)..Len(trades) : trades[j].profit < trades[k].profit
         IN  << trades[i] >>

\* max(window_trades, key=profit, default=None): the first of the maxima
max_profit(trades) ==
    IF trades = << >> THEN << >>
    ELSE LET i == CHOOSE k \in 1..Len(trades) :
                      /\ \A j \in 1..Len(trades) : trades[j].profit <= trades[k].profit
                      /\ \A j \in 1..(k - 1) : trades[j].profit < trades[k].profit
         IN  << trades[i] >>

\* min(window_trades, key=profit, default=None): the first of the minima
min_profit(trades) ==
    IF trades = << >> THEN << >>
    ELSE LET i == CHOOSE k \in 1..Len(trades) :
                      /\ \A j \in 1..Len(trades) : trades[j].profit >= trades[k].profit
                      /\ \A j \in 1..(k - 1) : trades[j].profit > trades[k].profit
         IN  << trades[i] >>

window_summary(trades, now, days) ==
    LET cutoff == now - days * Day
        window_trades == SelectWindow(trades, cutoff, 1)
        summary == summarize_trades(window_trades)
    IN  [profit |-> summary.profit, trades |-> summary.trades,
         wins |-> summary.wins, losses |-> summary.losses,
         win_rate |-> summary.win_rate,
         best_trade |-> summarize_single_trade(max_profit(window_trades), FALSE),
         worst_trade |-> summarize_single_trade(min_profit(window_trades), FALSE)]

\* build_windows(trades), with the value datetime.now() returned
build_windows(trades, now) ==
    [key \in {WINDOWS[i].key : i \in 1..Len(WINDOWS)} |->
        LET w == CHOOSE i \in 1..Len(WINDOWS) : WINDOWS[i].key = key
        IN  window_summary(trades, now, WINDOWS[w].days)]

\* the loop that fills stats, an insertion-ordered dict keyed by symbol
RECURSIVE symbol_stats(_, _, _)
symbol_stats(stats, trades, i) ==
    IF i > Len(trades) THEN stats
    ELSE LET trade == trades[i]
             symbol == GetOr(trade.symbol, "UNKWN")
             known == \E k \in 1..Len(stats) : stats[k].symbol = symbol
             bucket == IF known
                       THEN stats[CHOOSE k \in 1..Len(stats) : stats[k].symbol = symbol]
                       ELSE [symbol |-> symbol, profit |-> 0, trades |-> 0,
                             wins |-> 0, losses |-> 0]
             updated == [symbol |-> symbol,
                         profit |-> bucket.profit + trade.profit,
                         trades |-> bucket.trades + 1,
                         wins |-> bucket.wins + (IF trade.profit > 0 THEN 1 ELSE 0),
                         losses |-> bucket.losses + (IF trade.profit < 0 THEN 1 ELSE 0)]
         IN  symbol_stats(
                 IF known
                 THEN [k \in 1..Len(stats) |->
                          IF stats[k].symbol = symbol THEN updated ELSE stats[k]]
                 ELSE Append(stats, updated),
                 trades, i + 1)

\* sorted(..., key=profit, reverse=True) keeps equal keys in their order: it is
\* the stable ascending sort on the negated key
profit_keys(stats) == [k \in 1..Len(stats) |-> 0 - stats[k].profit]

\* ordered, every entry with its rank
ranked_symbols(trades) ==
    LET stats == symbol_stats(<< >>, trades, 1)
        ordered == sort(stats, profit_keys(stats))
    IN  [idx \in 1..Len(ordered) |->
            [symbol |-> ordered[idx].symbol, profit |-> ordered[idx].profit,
             trades |-> ordered[idx].trades, wins |-> ordered[idx].wins,
             losses |-> ordered[idx].losses, rank |-> idx]]

Ranks(list) == [i \in 1..Len(list) |-> list[i].rank]

\* variant: a group of the top list is not listed again in the bottom list
build_symbol_lists_disjoint(trades) ==
    LET ordered == ranked_symbols(trades)
        n == Len(ordered)
        top == SubSeq(ordered, 1, IF n < TopCount THEN n ELSE TopCount)
    IN  [top |-> top,
         bottom |-> SubSeq(ordered, IF n < TopCount THEN n + 1 ELSE TopCount + 1, n)]

build_symbol_lists(trades) ==
    LET ordered == ranked_symbols(trades)
        n == Len(ordered)
        top == SubSeq(ordered, 1, IF n < TopCount THEN n ELSE TopCount)
        bottom_slice == SubSeq(ordered, IF n < TopCount THEN 1 ELSE n - TopCount + 1, n)
    IN  [top |-> top, bottom |-> sort(bottom_slice, Ranks(bottom_slice))]

----------------------------------------------------------------------------
(* TKB-WebTicker: the report payload *)

RecentLimit == 10
DailyDays == 7

_materialize_snapshots(history) ==
    LET parsed == [i \in 1..Len(history.snapshots) |->
                      [timestamp |-> parse_iso_datetime(history.snapshots[i].timestamp),
                       balance |-> history.snapshots[i].balance,
                       equity |-> history.snapshots[i].equity,
                       floating |-> history.snapshots[i].floating]]
    IN  sort(parsed, Timestamps(parsed))

\* trades[-limit:][::-1], each summarised with its comment
build_recent_trades(trades) ==
    LET n == Len(trades)
        k == IF n < RecentLimit THEN n ELSE RecentLimit
    IN  [i \in 1..k |-> summarize_single_trade(<< trades[n + 1 - i] >>, TRUE)[1]]

\* the loop that fills buckets, keyed by the calendar date of closed_at
RECURSIVE daily_buckets(_, _, _, _)
daily_buckets(buckets, trades, cutoff, i) ==
    IF i > Len(trades) THEN buckets
    ELSE IF trades[i].closed_at < cutoff
         THEN daily_buckets(buckets, trades, cutoff, i + 1)
         ELSE LET date == trades[i].closed_at \div Day
                  known == \E k \in 1..Len(buckets) : buckets[k].date = date
              IN  daily_buckets(
                      IF known
                      THEN [k \in 1..Len(buckets) |->
                               IF buckets[k].date = date
                               THEN [date |-> date,
                                     profit |-> buckets[k].profit + trades[i].profit,
                                     trades |-> buckets[k].trades + 1]
                               ELSE buckets[k]]
                      ELSE Append(buckets, [date |-> date,
                                            profit |-> trades[i].profit,
                                            trades |-> 1]),
                      trades, cutoff, i + 1)

build_daily_breakdown(trades, now) ==
    LET buckets == daily_buckets(<< >>, trades, now - DailyDays * Day, 1)
    IN  sort(buckets, [k \in 1..Len(buckets) |-> buckets[k].date])

\* the account block of build_payload; snapshot_at None is the integer None
account_of(snapshots) ==
    IF snapshots = << >>
    THEN [balance |-> 0, equity |-> 0, floating |-> 0, snapshot_at |-> None]
    ELSE LET latest == snapshots[Len(snapshots)]
         IN  [balance |-> round(latest.balance, SummaryDigits),
              equity |-> round(latest.equity, SummaryDigits),
              floating |-> round(latest.floating, SummaryDigits),
              snapshot_at |-> isoformat(latest.timestamp)]

\* build_payload without the meta block, which only repeats the configuration
build_payload(history, trades, snapshots, now) ==
    [account |-> account_of(snapshots),
     overall |-> summarize_trades(trades),
     windows |-> build_windows(trades, now),
     top_symbols |-> build_symbol_lists(trades).top,
     bottom_symbols |-> build_symbol_lists(trades).bottom,
     recent_trades |-> build_recent_trades(trades),
     daily_breakdown |-> build_daily_breakdown(trades, now),
     generated_at |-> isoformat(now),
     history |-> history]

----------------------------------------------------------------------------
(* Inputs of the aggregation engine *)

MaxAgg == 3

AggTrade(ticket, symbol, profit, closed, comment) ==
    [LogTrade(Txt(ticket), Iso(closed), Num(profit), symbol, closed)
        EXCEPT !.comment = comment]

\* three trades closed 1, 10 and 400 days before Now0; three trades on the
\* window boundaries whose symbols total 100, 100 and -50; a break-even trade
\* without a symbol, older than every window
AggEntries ==
    << AggTrade("11", "USDJPY", 10 * Unit, Now0 - Day, "TP hit"),
       AggTrade("12", "AUDUSD", 0 - 5 * Unit, Now0 - 10 * Day, "[sl] stop"),
       AggTrade("13", "GBPUSD", 1000 * Unit, Now0 - 400 * Day, ABSENT),
       AggTrade("14", "USDJPY", 100 * Unit, Now0 - 7 * Day, ABSENT),
       AggTrade("15", "USDCHF", 100 * Unit, Now0 - 30 * Day - TicksPerSec, ABSENT),
       AggTrade("16", "AUDUSD", 0 - 50 * Unit, Now0 - 365 * Day, ABSENT),
       AggTrade("17", NULL, 0, Now0 - 366 * Day, ABSENT) >>

AggLogs == SeqsUpTo(1..Len(AggEntries), MaxAgg)

\* the history the updater holds after merging such a log into an empty one
AggHistory(log) ==
    merge_history(EmptyHistory,
                  trades_from_log([i \in 1..Len(log) |-> AggEntries[log[i]]]),
                  << >>)

\* the values datetime.now() takes: on a whole second, and one tick later
Nows == {Now0, Now0 + 1}

----------------------------------------------------------------------------
(* The aggregation engine on its own: SpecAgg *)

InitAgg ==
    /\ MergeIdle
    /\ RunIdle
    /\ FnIdle
    /\ aggLog \in AggLogs
    /\ aggNow \in Nows
    /\ aggTrades = << >>
    /\ aggPc = "input"
    /\ report = << >>

\* main: trades = _materialize_trades(history); payload = build_payload(...)
BuildPayload ==
    /\ aggPc = "input"
    /\ LET history == AggHistory(aggLog)
           trades == _materialize_trades(history)
       IN  /\ aggTrades' = trades
           /\ report' = << build_payload(history, trades,
                                         _materialize_snapshots(history), aggNow) >>
    /\ aggPc' = "done"
    /\ UNCHANGED << aggLog, aggNow, mvars, rvars, fvars >>

NextAgg == BuildPayload

SpecAgg == InitAgg /\ [][NextAgg]_vars

----------------------------------------------------------------------------
(* The symbol ranking over many symbols: SpecRank *)

MaxRank == 11

SymbolNames ==
    << "EURUSD", "GBPUSD", "USDJPY", "USDCHF", "AUDUSD", "NZDUSD", "USDCAD",
       "XAUUSD", "XAGUSD", "EURJPY", "EURGBP" >>

\* the i-th trade of the pool: closed i days after the first, on the i-th
\* symbol (the names are taken round), with a profit between -2 and 2
RankEntry(i) ==
    AggTrade(ToString(100 + i), SymbolNames[((i - 1) % Len(SymbolNames)) + 1],
             (((i * 7) % 5) - 2) * Unit, Now0 - (MaxRank + 2 - i) * Day, ABSENT)

SortedSeq(S) ==
    [i \in 1..Cardinality(S) |->
        CHOOSE x \in S : Cardinality({y \in S : y < x}) = i - 1]

\* the logs that hold some trades of the pool, in time order
RankLogs == {SortedSeq(S) : S \in SUBSET (1..MaxRank)}

RankHistory(log) ==
    merge_history(EmptyHistory,
                  trades_from_log([i \in 1..Len(log) |-> RankEntry(log[i])]),
                  << >>)

InitRank ==
    /\ MergeIdle
    /\ RunIdle
    /\ FnIdle
    /\ aggLog \in RankLogs
    /\ aggNow = Now0
    /\ aggTrades = << >>
    /\ aggPc = "rank"
    /\ report = << >>

\* main: trades = _materialize_trades(history); payload = build_payload(...)
BuildRanking ==
    /\ aggPc = "rank"
    /\ LET history == RankHistory(aggLog)
           trades == _materialize_trades(history)
       IN  /\ aggTrades' = trades
           /\ report' = << build_payload(history, trades,
                                         _materialize_snapshots(history), aggNow) >>
    /\ aggPc' = "ranked"
    /\ UNCHANGED << aggLog, aggNow, mvars, rvars, fvars >>

NextRank == BuildRanking

SpecRank == InitRank /\ [][NextRank]_vars

----------------------------------------------------------------------------
(* The exit classifier on its own: SpecExit *)

AllIdle == MergeIdle /\ AggIdle /\ RunIdle

LabelTexts == {NULL, "", "1.08500"}

ReasonTexts ==
    {NULL, "", "DEAL_REASON_TP", "deal_reason_sl", "tp_hit, sl_hit",
     "DEAL_REASON_CLIENT"}

CommentTexts ==
    {NULL, "", "TP hit", "[sl] stop", "closed, SL hit", "TP hit, SL hit",
     "manual close"}

\* the materialised trades, by the four fields the classifier reads
ExitTrades ==
    [tp_label : LabelTexts, sl_label : LabelTexts,
     exit_reason : ReasonTexts, comment : CommentTexts]

InitExit ==
    /\ AllIdle
    /\ arg \in ExitTrades
    /\ result = << >>
    /\ called = "none"

DetermineExitType ==
    /\ called = "none"
    /\ result' = << determine_exit_type(arg) >>
    /\ called' = "determine_exit_type"
    /\ UNCHANGED << arg, mvars, avars, rvars >>

NextExit == DetermineExitType

SpecExit == InitExit /\ [][NextExit]_vars

----------------------------------------------------------------------------
(* One log record through the normaliser and the merge: SpecIngest *)

\* what a payload can hold where a time is expected: nothing, null, an empty
\* string, an ISO time, a text that is no time, a number
RawTimes == {Absent, Null, Txt(""), Iso(Now0 - Day), Txt("yesterday"), Num(1700000000)}

\* what a payload can hold where an amount is expected
RawAmounts == {Absent, Null, Num(Unit), NumTxt(2 * Unit), Txt("n/a")}

RawVolumes == {Absent, Num(Unit \div 10), Txt("")}

RawTickets == {Absent, Null, Txt(""), Num(7), Txt("7")}

RawSymbols == {ABSENT, NULL, "EURUSD"}

RawTrades ==
    { [BlankEntry("trade", Now0) EXCEPT !.ticket = ticket, !.closed_at = closed,
                                        !.profit = profit, !.volume = volume,
                                        !.symbol = symbol] :
          ticket \in RawTickets, closed \in RawTimes, profit \in RawAmounts,
          volume \in RawVolumes, symbol \in RawSymbols }

RawSnapshots ==
    { [BlankEntry("snapshot", Now0) EXCEPT !.timestamp = stamp,
                                           !.balance = balance,
                                           !.equity = equity,
                                           !.floating = floating] :
          stamp \in RawTimes, balance \in RawAmounts, equity \in RawVolumes,
          floating \in RawVolumes }

InitIngest ==
    /\ AllIdle
    /\ arg \in RawTrades \cup RawSnapshots
    /\ result = << >>
    /\ called = "none"

Raised == [raised |-> TRUE, record |-> << >>, history |-> EmptyHistory]

\* main on a log of one trade line and an empty history:
\* merge_history(history, [normalize_trade(entry)], [])
IngestTrade ==
    /\ called = "none"
    /\ arg.type = "trade"
    /\ result' =
           IF normalize_trade_raises(arg) THEN << Raised >>
           ELSE << [raised |-> FALSE,
                    record |-> << normalize_trade(arg) >>,
                    history |-> merge_history(EmptyHistory,
                                              << normalize_trade(arg) >>, << >>)] >>
    /\ called' = "ingest"
    /\ UNCHANGED << arg, mvars, avars, rvars >>

\* main on a log of one snapshot line and an empty history:
\* merge_history(history, [], [normalize_snapshot(entry)])
IngestSnapshot ==
    /\ called = "none"
    /\ arg.type = "snapshot"
    /\ result' =
           IF normalize_snapshot_raises(arg) THEN << Raised >>
           ELSE << [raised |-> FALSE,
                    record |-> << normalize_snapshot(arg) >>,
                    history |-> merge_history(EmptyHistory, << >>,
                                              << normalize_snapshot(arg) >>)] >>
    /\ called' = "ingest"
    /\ UNCHANGED << arg, mvars, avars, rvars >>

NextIngest == IngestTrade \/ IngestSnapshot

SpecIngest == InitIngest /\ [][NextIngest]_vars

----------------------------------------------------------------------------
(* The bulk merge on its own: SpecBulk *)

MaxBulk == 2

\* ticket and close time of the raw trades: ticket "1" closing late, early
\* and not at all, ticket "2" closing early, and a trade without a ticket
BulkPool ==
    << [ticket |-> "1", closed_at |-> Now0 - Day],
       [ticket |-> "1", closed_at |-> Now0 - 2 * Day],
       [ticket |-> "1", closed_at |-> None],
       [ticket |-> "2", closed_at |-> Now0 - 2 * Day],
       [ticket |-> "", closed_at |-> Now0 - Day] >>

\* the n-th list: the trade at place i has the profit 10 * n + i
BulkList(places, n) ==
    [i \in 1..Len(places) |->
        [StatementTrade(BulkPool[places[i]].ticket, BulkPool[places[i]].closed_at,
                        (10 * n + i) * Unit)
            EXCEPT !.opened_at = None]]

InitBulk ==
    /\ AllIdle
    /\ arg \in [first : SeqsUpTo(1..Len(BulkPool), MaxBulk),
                 second : SeqsUpTo(1..Len(BulkPool), MaxBulk)]
    /\ result = << >>
    /\ called = "none"

\* merged_trades = merge_trades(trades_from_statement, trades_from_log)
MergeTrades ==
    /\ called = "none"
    /\ result' = << merge_trades(BulkList(arg.first, 1), BulkList(arg.second, 2)) >>
    /\ called' = "merge_trades"
    /\ UNCHANGED << arg, mvars, avars, rvars >>

NextBulk == MergeTrades

SpecBulk == InitBulk /\ [][NextBulk]_vars

----------------------------------------------------------------------------
(* One log through the bootstrap importer and through the updater: SpecPaths *)

MaxPath == 2

PathTickets == << "21", "22", "23" >>

\* the log trades: ticket "21" closed three days ago, "22" two days ago,
\* "23" a day ago, each with and without a tp_label and an sl_label
PathEntries ==
    { [LogTrade(Txt(PathTickets[k]), Iso(Now0 - (((k * 2) % 3) + 1) * Day),
                Num(k * Unit), "EURUSD", Now0)
          EXCEPT !.tp_label = tp, !.sl_label = sl] :
          k \in 1..Len(PathTickets), tp \in {ABSENT, "1.08500"},
          sl \in {ABSENT, "1.07000"} }

\* the logs of at most MaxPath trade records with distinct tickets
PathLogs ==
    { log \in SeqsUpTo(PathEntries, MaxPath) :
          \A i, j \in 1..Len(log) : i # j => log[i].ticket # log[j].ticket }

InitPaths ==
    /\ AllIdle
    /\ arg \in PathLogs
    /\ result = << >>
    /\ called = "none"

\* TKB-WebTicker-initial.py with an empty statement: the trades it stores
ImportBootstrap ==
    /\ called = "none"
    /\ result' = << build_history(merge_trades(<< >>, trades_from_log(arg)),
                                  snapshots_from_log(arg)).trades >>
    /\ called' = "bootstrap"
    /\ UNCHANGED << arg, mvars, avars, rvars >>

\* TKB-WebTicker.py on the same log and an empty history: the trades it stores
MergeIncremental ==
    /\ called = "bootstrap"
    /\ result' = Append(result,
                        merge_history(EmptyHistory, trades_from_log(arg),
                                      snapshots_from_log(arg)).trades)
    /\ called' = "both"
    /\ UNCHANGED << arg, mvars, avars, rvars >>

NextPaths == ImportBootstrap \/ MergeIncremental

SpecPaths == InitPaths /\ [][NextPaths]_vars

----------------------------------------------------------------------------
(* Two updater runs on logs that differ in exit_reason only: SpecReason *)

MaxReason == 2

\* the log trades, all closed within the last week: ticket "31" carries no
\* hint at all, "32" an sl_label, "33" a comment with an SL hint
ReasonEntries ==
    << LogTrade(Txt("31"), Iso(Now0 - 3 * Day), Num(3 * Unit), "EURUSD", Now0),
       [LogTrade(Txt("32"), Iso(Now0 - 2 * Day), Num(0 - 2 * Unit), "EURUSD", Now0)
           EXCEPT !.sl_label = "1.07000"],
       [LogTrade(Txt("33"), Iso(Now0 - Day), Num(Unit), "XAUUSD", Now0)
           EXCEPT !.comment = "[sl] stop"] >>

\* what the exit_reason field of a log record holds
ReasonValues == {ABSENT, "DEAL_REASON_TP", "deal_reason_sl"}

\* the logs of at most MaxReason trade records with distinct tickets
ReasonLogs ==
    { log \in SeqsUpTo(1..Len(ReasonEntries), MaxReason) :
          \A i, j \in 1..Len(log) : i # j => log[i] # log[j] }

\* the history file before the run: none, or one written by an earlier run
ReasonPriors ==
    { EmptyHistory,
      merge_history(EmptyHistory, trades_from_log(<< GoodEntries[3] >>), << >>) }

\* the records of the log, each with its exit_reason
WithReasons(log, reasons) ==
    [i \in 1..Len(log) |->
        [ReasonEntries[log[i]] EXCEPT !.exit_reason = reasons[i]]]

\* main: the history merged from the log, the materialised trades and the
\* payload that write_payload stores
ReasonRun(prior, entries) ==
    LET history == merge_history(prior, trades_from_log(entries),
                                 snapshots_from_log(entries))
        trades == _materialize_trades(history)
    IN  [history |-> history,
         trades |-> trades,
         payload |-> build_payload(history, trades,
                                   _materialize_snapshots(history), Now0)]

InitReason ==
    /\ AllIdle
    /\ \E log \in ReasonLogs, prior \in ReasonPriors :
       \E first, second \in [1..Len(log) -> ReasonValues] :
           arg = [log |-> log, prior |-> prior, first |-> first,
                  second |-> second]
    /\ result = << >>
    /\ called = "none"

\* a run of TKB-WebTicker.py on the log with the first choice of reasons
RunFirst ==
    /\ called = "none"
    /\ result' = << ReasonRun(arg.prior, WithReasons(arg.log, arg.first)) >>
    /\ called' = "first"
    /\ UNCHANGED << arg, mvars, avars, rvars >>

\* a run from the same history file on the log with the second choice
RunSecond ==
    /\ called = "first"
    /\ result' = Append(result,
                        ReasonRun(arg.prior, WithReasons(arg.log, arg.second)))
    /\ called' = "both"
    /\ UNCHANGED << arg, mvars, avars, rvars >>

NextReason == RunFirst \/ RunSecond

SpecReason == InitReason /\ [][NextReason]_vars

----------------------------------------------------------------------------
(* The state log on disk *)

MaxRunWork == 4

\* a payload whose profit is not a number, after the payloads that normalise
BadEntries ==
    << LogTrade(Txt("9"), Iso(Now0 - Day), Txt("n/a"), "EURUSD", Now0) >>

Payloads == GoodEntries \o BadEntries

\* a line of the log: does it contain WEB_TAG, does it begin with "[", is the
\* bracket of its timestamp closed, is there a "{" after the tag, and which
\* payload (a place in Payloads) follows
LogLine(tag, lead, close, brace, entry) ==
    [tag |-> tag, lead |-> lead, close |-> close, brace |-> brace,
     entry |-> entry]

Garbage == LogLine(FALSE, FALSE, FALSE, FALSE, 0)

\* a trade whose ticket the statement import stored with other fields, a
\* trade with a new ticket, a snapshot, a line of another logger, a tagged
\* line without the leading bracket, one whose timestamp bracket is not
\* closed, one without a payload, and a trade whose profit is not a number
RunLines ==
    << LogLine(TRUE, TRUE, TRUE, TRUE, 1),
       LogLine(TRUE, TRUE, TRUE, TRUE, 3),
       LogLine(TRUE, TRUE, TRUE, TRUE, 5),
       LogLine(FALSE, TRUE, TRUE, FALSE, 0),
       LogLine(TRUE, FALSE, TRUE, TRUE, 4),
       LogLine(TRUE, TRUE, FALSE, TRUE, 4),
       LogLine(TRUE, TRUE, TRUE, FALSE, 0),
       LogLine(TRUE, TRUE, TRUE, TRUE, Len(GoodEntries) + 1) >>

\* how the bytes of the log were written, and whether their number is even:
\* UTF-16-LE, UTF-8 of odd and of even length, and bytes that are neither
LogBytes ==
    { [written |-> "utf-16-le", even |-> TRUE],
      [written |-> "utf-8", even |-> FALSE],
      [written |-> "utf-8", even |-> TRUE],
      [written |-> "other", even |-> FALSE] }

NoLog == [exists |-> FALSE, written |-> "other", even |-> TRUE, lines |-> << >>]

\* the logs of at most n lines, each line named by its place in RunLines
LogFiles(n) ==
    { [exists |-> TRUE, written |-> b.written, even |-> b.even, lines |-> l] :
          b \in LogBytes, l \in SeqsUpTo(1..Len(RunLines), n) }
    \cup (IF n >= 0 THEN {NoLog} ELSE {})

\* for encoding in ("utf-16-le", "utf-8-sig", "utf-8"): raw.decode(encoding)
ENCODINGS == << "utf-16-le", "utf-8-sig", "utf-8" >>

\* raw.decode(encoding) does not raise: any even number of bytes is UTF-16-LE
\* text, and UTF-8 text decodes with or without a byte-order mark
decodes(log, encoding) ==
    IF encoding = "utf-16-le" THEN log.even ELSE log.written = "utf-8"

decode_raises(log) == \A i \in 1..Len(ENCODINGS) : ~decodes(log, ENCODINGS[i])

\* text.splitlines() of the first decoding that succeeds; bytes written in
\* another encoding decode to text in which no line contains the tag
decode(log) ==
    LET first == CHOOSE i \in 1..Len(ENCODINGS) :
                     /\ decodes(log, ENCODINGS[i])
                     /\ \A j \in 1..(i - 1) : ~decodes(log, ENCODINGS[j])
        faithful == IF ENCODINGS[first] = "utf-16-le"
                    THEN log.written = "utf-16-le"
                    ELSE log.written = "utf-8"
    IN  IF faithful THEN [i \in 1..Len(log.lines) |-> RunLines[log.lines[i]]]
        ELSE << Garbage >>

\* variant: a line without a readable timestamp is given the current time
parse_log_timestamp_lenient(line) == FALSE

\* parse_log_timestamp(line) raises: no leading "[", no "]" at all, or the
\* text up to the first "]" (that of the tag when the timestamp's bracket is
\* not closed) does not match TIMESTAMP_FMT
parse_log_timestamp_raises(line) ==
    \/ ~line.lead
    \/ ~(line.close \/ line.tag)
    \/ ~line.close

\* one pass of the loop of load_state_entries raises
line_raises(line) ==
    /\ line.tag
    /\ \/ parse_log_timestamp_raises(line)
       \/ ~line.brace

load_state_entries_raises(log) ==
    /\ log.exists
    /\ \/ decode_raises(log)
       \/ \E i \in 1..Len(decode(log)) : line_raises(decode(log)[i])

RECURSIVE entries_loop(_, _)
entries_loop(text, i) ==
    IF i > Len(text) THEN << >>
    ELSE IF ~text[i].tag THEN entries_loop(text, i + 1)
         ELSE << text[i].entry >> \o entries_loop(text, i + 1)

\* load_state_entries(state_log) if state_log and state_log.exists() else []
load_state_entries(log) ==
    IF ~log.exists THEN << >> ELSE entries_loop(decode(log), 1)

----------------------------------------------------------------------------
(* The history file on disk *)

\* the history the statement import leaves on disk
BootstrapHistory ==
    build_history(merge_trades(Statements[2], << >>),
                  snapshots_from_log(Entries(<< 5 >>)))

JsonFile(kind, history, run) == [kind |-> kind, history |-> history, run |-> run]

\* the files a first run can find: none, one that is not JSON, a JSON object
\* without a history block, JSON that is not an object, bytes that are not
\* UTF-8, and the file the statement import wrote
InitialJsonFiles ==
    { JsonFile(kind, EmptyHistory, 0) :
          kind \in {"missing", "badjson", "nohistory", "notobject", "undecodable"} }
    \cup { JsonFile("ok", BootstrapHistory, 0) }

\* variant: the stored trades are not read back
load_history_forgetful(file) == EmptyHistory

\* load_history(json_path), when it returns
load_history(file) ==
    IF file.kind = "missing" THEN EmptyHistory
    ELSE IF file.kind = "badjson" THEN EmptyHistory
    ELSE IF file.kind = "nohistory" THEN EmptyHistory
    ELSE [version |-> file.history.version,
          trades |-> file.history.trades,
          snapshots |-> file.history.snapshots]

\* load_history(json_path) raises: read_text raises UnicodeDecodeError and
\* payload.get raises AttributeError, and only JSONDecodeError is caught
load_history_raises(file) == file.kind \in {"undecodable", "notobject"}

\* the text render_html(payload) returns, by the figures it shows
render_html(payload) == [overall |-> payload.overall, account |-> payload.account]

----------------------------------------------------------------------------
(* The updater run: Spec *)

files == << jsonFile, htmlFile, markerFile >>

Init ==
    /\ MergeIdle
    /\ AggIdle
    /\ FnIdle
    /\ jsonFile \in InitialJsonFiles
    /\ htmlFile = NoFile
    /\ markerFile = NoFile
    /\ pc = "idle"
    /\ runNo = 0
    /\ runWork = 0
    /\ runHistory = EmptyHistory
    /\ runEntries = << >>
    /\ runPayload = << >>
    /\ outcome = "none"
    /\ start = files
    /\ runLog = << >>

\* the process is started, again after a run that raised
StartRun ==
    /\ pc \in {"idle", "failed"}
    /\ runWork < MaxRunWork
    /\ pc' = "started"
    /\ runNo' = runNo + 1
    /\ runWork' = runWork + 1
    /\ runHistory' = EmptyHistory
    /\ runEntries' = << >>
    /\ runPayload' = << >>
    /\ outcome' = "running"
    /\ start' = files
    /\ runLog' = << >>
    /\ UNCHANGED << files, mvars, avars, fvars >>

\* history = load_history(output_json)
LoadHistory ==
    /\ pc = "started"
    /\ IF load_history_raises(jsonFile)
       THEN /\ pc' = "failed"
            /\ outcome' = "load_history raised"
            /\ UNCHANGED runHistory
       ELSE /\ pc' = "loaded"
            /\ runHistory' = load_history(jsonFile)
            /\ UNCHANGED outcome
    /\ UNCHANGED << files, runNo, runWork, runEntries, runPayload, start, runLog,
                    mvars, avars, fvars >>

\* entries = load_state_entries(state_log) ...
LoadStateEntries(log) ==
    /\ pc = "loaded"
    /\ runWork + Len(log.lines) <= MaxRunWork
    /\ runWork' = runWork + Len(log.lines)
    /\ runLog' = << log >>
    /\ IF load_state_entries_raises(log)
       THEN /\ pc' = "failed"
            /\ outcome' = "load_state_entries raised"
            /\ UNCHANGED runEntries
       ELSE /\ pc' = "parsed"
            /\ runEntries' = load_state_entries(log)
            /\ UNCHANGED outcome
    /\ UNCHANGED << files, runNo, runHistory, runPayload, start, mvars, avars, fvars >>

\* trades_from_log = [...]; snapshots_from_log = [...]; merge_history(...)
MergeHistory ==
    /\ pc = "parsed"
    /\ LET entries == [i \in 1..Len(runEntries) |-> Payloads[runEntries[i]]]
           raises == \E i \in 1..Len(entries) :
                         \/ /\ entries[i].type = "trade"
                            /\ normalize_trade_raises(entries[i])
                         \/ /\ entries[i].type = "snapshot"
                            /\ normalize_snapshot_raises(entries[i])
       IN  IF raises
           THEN /\ pc' = "failed"
                /\ outcome' = "normalize raised"
                /\ UNCHANGED runHistory
           ELSE /\ pc' = "merged"
                /\ runHistory' = merge_history(runHistory, trades_from_log(entries),
                                               snapshots_from_log(entries))
                /\ UNCHANGED outcome
    /\ UNCHANGED << files, runNo, runWork, runEntries, runPayload, start, runLog,
                    mvars, avars, fvars >>

\* trades = ...; snapshots = ...; payload = build_payload(...)
Aggregate ==
    /\ pc = "merged"
    /\ runPayload' = << build_payload(runHistory, _materialize_trades(runHistory),
                                      _materialize_snapshots(runHistory),
                                      Now0 + runNo) >>
    /\ pc' = "built"
    /\ UNCHANGED << files, runNo, runWork, runHistory, runEntries, outcome, start,
                    runLog, mvars, avars, fvars >>

\* write_payload: path.open("w") truncates the file
WritePayloadOpen ==
    /\ pc = "built"
    /\ jsonFile' = JsonFile("badjson", EmptyHistory, runNo)
    /\ pc' = "writing"
    /\ UNCHANGED << htmlFile, markerFile, runNo, runWork, runHistory, runEntries,
                    runPayload, outcome, start, runLog, mvars, avars, fvars >>

\* write_payload: json.dump streams the payload and the file is closed
WritePayloadDump ==
    /\ pc = "writing"
    /\ jsonFile' = JsonFile("ok", runPayload[1].history, runNo)
    /\ pc' = "json_written"
    /\ UNCHANGED << htmlFile, markerFile, runNo, runWork, runHistory, runEntries,
                    runPayload, outcome, start, runLog, mvars, avars, fvars >>

\* the process dies, or a write raises, while json.dump streams: the file
\* holds a prefix of the text, cut between two characters or inside one
WritePayloadInterrupted(kind) ==
    /\ pc = "writing"
    /\ jsonFile' = JsonFile(kind, EmptyHistory, runNo)
    /\ pc' = "failed"
    /\ outcome' = "write_payload interrupted"
    /\ UNCHANGED << htmlFile, markerFile, runNo, runWork, runHistory, runEntries,
                    runPayload, start, runLog, mvars, avars, fvars >>

\* html_content = render_html(payload); write_html(html_content, output_html)
WriteHtml ==
    /\ pc = "json_written"
    /\ htmlFile' = [exists |-> TRUE, run |-> runNo,
                    content |-> render_html(runPayload[1])]
    /\ pc' = "html_written"
    /\ UNCHANGED << jsonFile, markerFile, runNo, runWork, runHistory, runEntries,
                    runPayload, outcome, start, runLog, mvars, avars, fvars >>

\* write_marker(payload, marker_path); the upload is left to its collaborator
WriteMarker ==
    /\ pc = "html_written"
    /\ markerFile' = [exists |-> TRUE, run |-> runNo,
                      profit_7d |-> runPayload[1].windows["7d"].profit,
                      trades_7d |-> runPayload[1].windows["7d"].trades]
    /\ pc' = "idle"
    /\ outcome' = "completed"
    /\ UNCHANGED << jsonFile, htmlFile, runNo, runWork, runHistory, runEntries,
                    runPayload, start, runLog, mvars, avars, fvars >>

\* the process dies, or a write raises, after the JSON file is closed
WriteInterrupted ==
    /\ pc \in {"json_written", "html_written"}
    /\ pc' = "failed"
    /\ outcome' = "write interrupted"
    /\ UNCHANGED << files, runNo, runWork, runHistory, runEntries, runPayload,
                    start, runLog, mvars, avars, fvars >>

Next ==
    \/ StartRun
    \/ LoadHistory
    \/ \E log \in LogFiles(IF pc = "loaded" THEN MaxRunWork - runWork ELSE 0 - 1) :
           LoadStateEntries(log)
    \/ MergeHistory
    \/ Aggregate
    \/ WritePayloadOpen
    \/ WritePayloadDump
    \/ \E kind \in {"badjson", "undecodable"} : WritePayloadInterrupted(kind)
    \/ WriteHtml
    \/ WriteMarker
    \/ WriteInterrupted

Spec == Init /\ [][Next]_vars

----------------------------------------------------------------------------
(* Properties of the merge engine *)

NonDecreasing(keys) ==
    \A i \in 1..(Len(keys) - 1) : keys[i] <= keys[i + 1]

UniqueKeys(keys) ==
    \A i, j \in 1..Len(keys) : i # j => keys[i] # keys[j]

\* C1: merge_history is idempotent: invoked again with the trades and
\* snapshots of the call before, it leaves trades, snapshots and version
\* exactly as that call left them (same records, same order).
C1_Idempotent == phase = "again" => hist = before

\* a second invocation on a history that holds trades and snapshots, after a
\* call that offered both a trade and a snapshot
C1_Witness ==
    /\ phase = "again"
    /\ hist.trades # << >>
    /\ hist.snapshots # << >>
    /\ trades_from_log(Entries(batch)) # << >>
    /\ snapshots_from_log(Entries(batch)) # << >>

\* C2: starting from an empty history, no two stored trades share a ticket,
\* no two stored snapshots share a timestamp, and every stored record is the
\* first record offered under its key, in the same call or in an earlier one.
C2_DedupFirstWins ==
    fromEmpty =>
        /\ UniqueKeys(TicketsOf(hist.trades))
        /\ UniqueKeys(Timestamps(hist.snapshots))
        /\ \A i \in 1..Len(hist.trades) : hist.trades[i] \in firstTrade
        /\ \A i \in 1..Len(hist.snapshots) : hist.snapshots[i] \in firstSnap

\* a trade was offered whose ticket is stored with another profit, and a
\* snapshot whose timestamp is stored with another balance
C2_Witness ==
    /\ fromEmpty
    /\ \E r \in offered.trades : \E i \in 1..Len(hist.trades) :
           hist.trades[i].ticket = r.ticket /\ hist.trades[i].profit # r.profit
    /\ \E r \in offered.snapshots : \E i \in 1..Len(hist.snapshots) :
           /\ hist.snapshots[i].timestamp = r.timestamp
           /\ hist.snapshots[i].balance # r.balance

\* C4: after any call of merge_history, history.trades is non-decreasing by
\* closed_at and history.snapshots is non-decreasing by timestamp.
C4_SortInvariant ==
    phase \in {"merged", "again"} =>
        /\ NonDecreasing(ClosedAts(hist.trades))
        /\ NonDecreasing(Timestamps(hist.snapshots))

----------------------------------------------------------------------------
(* Properties of the aggregation engine *)

RECURSIVE SumOver(_, _)
SumOver(trades, idx) ==
    IF idx = {} THEN 0
    ELSE LET i == CHOOSE k \in idx : TRUE
         IN  trades[i].profit + SumOver(trades, idx \ {i})

ClosedSince(trades, now, days) ==
    {i \in 1..Len(trades) : trades[i].closed_at >= now - days * SecPerDay * TicksPerSec}

WindowAggregates(w, trades, now, days) ==
    /\ w.trades = Cardinality(ClosedSince(trades, now, days))
    /\ w.profit = round(SumOver(trades, ClosedSince(trades, now, days)), 2)

\* the trades closed 1, 10 and 400 days ago with profits +10, -5 and +1000
ExampleTrades ==
    /\ Len(aggTrades) = 3
    /\ TicketsOf(aggTrades) = << "13", "12", "11" >>
    /\ aggTrades[3].profit = 10 * Unit /\ aggTrades[3].closed_at = Now0 - Day
    /\ aggTrades[2].profit = 0 - 5 * Unit /\ aggTrades[2].closed_at = Now0 - 10 * Day
    /\ aggTrades[1].profit = 1000 * Unit /\ aggTrades[1].closed_at = Now0 - 400 * Day

\* C8: for each N in {7, 30, 365} the window of N days aggregates exactly the
\* trades with closed_at >= now - N days, boundary included, all three with
\* the same now; for trades closed 1, 10 and 400 days ago with profits +10,
\* -5 and +1000 the profits are 10, 5 and 5 and the old trade is in no window.
C8_WindowCorrectness ==
    aggPc = "done" =>
        LET w == report[1].windows
        IN  /\ DOMAIN w = {"7d", "30d", "365d"}
            /\ WindowAggregates(w["7d"], aggTrades, aggNow, 7)
            /\ WindowAggregates(w["30d"], aggTrades, aggNow, 30)
            /\ WindowAggregates(w["365d"], aggTrades, aggNow, 365)
            /\ ExampleTrades =>
                   /\ w["7d"].profit = 10 * Unit /\ w["7d"].trades = 1
                   /\ w["30d"].profit = 5 * Unit /\ w["30d"].trades = 2
                   /\ w["365d"].profit = 5 * Unit /\ w["365d"].trades = 2

\* the three example trades have been aggregated
C8_Witness == aggPc = "done" /\ ExampleTrades /\ report[1].windows["30d"].trades = 2

NoDivisionError(summary) == summary.win_rate # ZeroDivisionError

\* C9: summarize_trades never raises a division error; for an empty list it
\* returns zeros; otherwise trades is the length, wins counts profit > 0,
\* losses counts profit < 0, a zero profit counts in neither.
C9_SummarizeTrades ==
    aggPc = "done" =>
        LET r == report[1].overall
            w == report[1].windows
        IN  /\ aggTrades = << >> =>
                   r = [profit |-> 0, trades |-> 0, wins |-> 0, losses |-> 0,
                        win_rate |-> 0]
            /\ r.trades = Len(aggTrades)
            /\ r.wins = Cardinality({i \in 1..Len(aggTrades) : aggTrades[i].profit > 0})
            /\ r.losses = Cardinality({i \in 1..Len(aggTrades) : aggTrades[i].profit < 0})
            /\ r.wins + r.losses <= r.trades
            /\ NoDivisionError(r)
            /\ \A key \in DOMAIN w :
                   /\ NoDivisionError(w[key])
                   /\ w[key].trades = 0 => w[key].win_rate = 0 /\ w[key].profit = 0

\* a list with a break-even trade has been summarised, and an empty list too
\* (the trades of the 7-day window)
C9_Witness ==
    /\ aggPc = "done"
    /\ \E i \in 1..Len(aggTrades) : aggTrades[i].profit = 0
    /\ report[1].overall.wins + report[1].overall.losses < report[1].overall.trades
    /\ report[1].windows["7d"].trades = 0

FirstOfSymbol(trades, symbol) ==
    CHOOSE i \in 1..Len(trades) :
        /\ trades[i].symbol = symbol
        /\ \A j \in 1..(i - 1) : trades[j].symbol # symbol

\* C10: the symbol groups are ordered by total profit descending, groups with
\* equal totals in the order their symbols first occur in the time-ascending
\* trade list, and the ranks are 1..n in that order.
C10_RankingDeterminism ==
    aggPc = "done" =>
        LET ordered == ranked_symbols(aggTrades)
            n == Len(ordered)
        IN  /\ {ordered[i].symbol : i \in 1..n}
                   = {aggTrades[i].symbol : i \in 1..Len(aggTrades)}
            /\ \A i \in 1..n :
                   /\ ordered[i].rank = i
                   /\ ordered[i].profit =
                          SumOver(aggTrades, {k \in 1..Len(aggTrades) :
                                                  aggTrades[k].symbol = ordered[i].symbol})
            /\ \A i, j \in 1..n : i < j =>
                   /\ ordered[i].symbol # ordered[j].symbol
                   /\ ordered[i].profit >= ordered[j].profit
                   /\ ordered[i].profit = ordered[j].profit =>
                          FirstOfSymbol(aggTrades, ordered[i].symbol)
                              < FirstOfSymbol(aggTrades, ordered[j].symbol)
            /\ n <= TopCount => report[1].top_symbols = ordered

\* three symbols with totals 100, 100 and -50 have been ranked 1, 2, 3
C10_Witness ==
    /\ aggPc = "done"
    /\ Len(report[1].top_symbols) = 3
    /\ report[1].top_symbols[1].profit = 100 * Unit
    /\ report[1].top_symbols[2].profit = 100 * Unit
    /\ report[1].top_symbols[3].profit = 0 - 50 * Unit
    /\ Ranks(report[1].top_symbols) = << 1, 2, 3 >>

----------------------------------------------------------------------------
(* Properties of the updater run *)

TradeLine(line) == line.tag /\ line.entry > 0 /\ Payloads[line.entry].type = "trade"

\* C3: the persisted history is append-only across completed runs: every
\* trade and every snapshot the history file held before a run is in the
\* file after it with the same field values, and no trade of the file after
\* the run carries the ticket of a stored trade with other fields.
C3_AppendOnly ==
    (pc = "idle" /\ outcome = "completed" /\ start[1].kind = "ok") =>
        /\ jsonFile.kind = "ok"
        /\ Range(start[1].history.snapshots)
               \subseteq Range(jsonFile.history.snapshots)
        /\ \A t \in Range(start[1].history.trades) :
               /\ t \in Range(jsonFile.history.trades)
               /\ \A u \in Range(jsonFile.history.trades) :
                      u.ticket = t.ticket => u = t

\* a run completed whose log repeated the ticket of a stored trade with
\* other field values, and a snapshot that was stored already
C3_Witness ==
    /\ pc = "idle"
    /\ outcome = "completed"
    /\ start[1].kind = "ok"
    /\ start[1].history.snapshots # << >>
    /\ \E i \in 1..Len(runEntries) :
           LET entry == Payloads[runEntries[i]]
           IN  /\ entry.type = "trade"
               /\ \E t \in Range(start[1].history.trades) :
                      /\ t.ticket = str(entry.ticket)
                      /\ t # serialize_trade(normalize_trade(entry))

\* C5: a failure during the write phase leaves a valid history file intact:
\* when the file was valid at the start of the run, the file on disk is at
\* every moment either that old content or the complete content of this run.
C5_AtomicWrite ==
    start[1].kind = "ok" =>
        \/ jsonFile = start[1]
        \/ /\ jsonFile.kind = "ok"
           /\ jsonFile.run = runNo
           /\ runPayload # << >>
           /\ jsonFile.history = runPayload[1].history

\* the log of the run is one load_state_entries must refuse: it decodes under
\* none of the encodings, or a tagged line of its text lacks the leading
\* bracket, the closing bracket or the payload
FatalLog(log) ==
    /\ log.exists
    /\ \/ \A i \in 1..Len(ENCODINGS) : ~decodes(log, ENCODINGS[i])
       \/ \E i \in 1..Len(decode(log)) :
              LET line == decode(log)[i]
              IN  line.tag /\ (~line.lead \/ ~line.close \/ ~line.brace)

C7_LoadHistoryNeverFails ==
    /\ outcome # "load_history raised"
    /\ (pc = "loaded" /\ start[1].kind # "ok") => runHistory = EmptyHistory

----------------------------------------------------------------------------
(* Properties of the symbol lists *)

Least(a, b) == IF a < b THEN a ELSE b

SymbolsOf(list) == {list[i].symbol : i \in 1..Len(list)}

\* C11: the top list is the first min(5, n) ranked groups and the bottom list
\* the last min(5, n) ranked groups in ascending rank order; with n <= 5 both
\* lists are all n groups in the same order, and with fewer than 10 groups
\* the groups that belong to both lists are listed in both.
C11_TopBottomLists ==
    aggPc = "ranked" =>
        LET ordered == ranked_symbols(aggTrades)
            n == Len(ordered)
            m == Least(5, n)
            top == report[1].top_symbols
            bottom == report[1].bottom_symbols
        IN  /\ Len(top) = m
            /\ Len(bottom) = m
            /\ \A i \in 1..m : top[i] = ordered[i] /\ top[i].rank = i
            /\ \A i \in 1..m : bottom[i] = ordered[n - m + i]
                                 /\ bottom[i].rank = n - m + i
            /\ n <= 5 => top = ordered /\ bottom = ordered
            /\ n < 10 =>
                   Cardinality(SymbolsOf(top) \cap SymbolsOf(bottom)) = 2 * m - n

\* seven groups were ranked: the top list holds ranks 1..5, the bottom list
\* ranks 3..7, and ranks 3, 4 and 5 stand in both
C11_Witness ==
    /\ aggPc = "ranked"
    /\ Len(ranked_symbols(aggTrades)) = 7
    /\ Ranks(report[1].top_symbols) = << 1, 2, 3, 4, 5 >>
    /\ Ranks(report[1].bottom_symbols) = << 3, 4, 5, 6, 7 >>
    /\ SubSeq(report[1].top_symbols, 3, 5) = SubSeq(report[1].bottom_symbols, 1, 3)

----------------------------------------------------------------------------
(* Properties of the exit classifier *)

Present(label) == label \notin {NULL, ABSENT, ""}

ReasonSaysTP(trade) == trade.exit_reason \in {"DEAL_REASON_TP", "tp_hit, sl_hit"}

ReasonSaysSL(trade) == trade.exit_reason \in {"deal_reason_sl", "tp_hit, sl_hit"}

CommentSaysTP(trade) == trade.comment \in {"TP hit", "TP hit, SL hit"}

CommentSaysSL(trade) ==
    trade.comment \in {"[sl] stop", "closed, SL hit", "TP hit, SL hit"}

\* C12: determine_exit_type returns the result of the first matching rule in
\* the order tp_label, TP hint in exit_reason, TP hint in comment, sl_label,
\* SL hint in exit_reason, SL hint in comment, else manual, for every
\* combination of the six signals.
C12_ExitPriority ==
    called = "determine_exit_type" =>
        result[1] =
            IF Present(arg.tp_label) THEN "tp"
            ELSE IF ReasonSaysTP(arg) THEN "tp"
            ELSE IF CommentSaysTP(arg) THEN "tp"
            ELSE IF Present(arg.sl_label) THEN "sl"
            ELSE IF ReasonSaysSL(arg) THEN "sl"
            ELSE IF CommentSaysSL(arg) THEN "sl"
            ELSE "manual"

\* a trade with sl_label set, no tp_label and a TP hint in its comment was
\* classified tp
C12_Witness ==
    /\ called = "determine_exit_type"
    /\ Present(arg.sl_label)
    /\ ~Present(arg.tp_label)
    /\ ~ReasonSaysTP(arg)
    /\ CommentSaysTP(arg)
    /\ result = << "tp" >>

----------------------------------------------------------------------------
(* Properties of the normaliser and of the tickets the merge stores *)

\* C13: the merge never stores a trade without a real ticket: a new trade
\* whose ticket is empty, or whose log record carries no ticket, is
\* discarded, so no stored trade has an empty or a placeholder ticket.
C13_NoPlaceholderTicket ==
    (called = "ingest" /\ arg.type = "trade" /\ ~result[1].raised) =>
        /\ \A i \in 1..Len(result[1].history.trades) :
               result[1].history.trades[i].ticket \notin {"", "None", NULL, ABSENT}
        /\ arg.ticket \in {Absent, Null, Txt("")} => result[1].history.trades = << >>

\* the amount a field stands for: its number, 0 when absent or no number
AmountOf(v) == IF v.k \in {"num", "numtxt"} THEN v.n ELSE 0

\* a time field that is missing (absent, null, empty) or an ISO time
TimeReadable(v) == v.k \in {"absent", "null", "iso"} \/ v = Txt("")

\* an amount field that is absent or a number
AmountReadable(v) == v.k \in {"absent", "num", "numtxt"}

OwnTime(entry) == IF entry.type = "trade" THEN entry.closed_at ELSE entry.timestamp

\* C16: the normaliser never fails on numeric fields: a volume, profit,
\* balance, equity or floating value that is absent or not a number becomes
\* 0.0 and the record is still produced (here for records whose own time
\* field is missing or readable).
C16_NumericDefaults ==
    (called = "ingest" /\ TimeReadable(OwnTime(arg))) =>
        /\ ~result[1].raised
        /\ arg.type = "trade" =>
               /\ result[1].record[1].volume = AmountOf(arg.volume)
               /\ result[1].record[1].profit = AmountOf(arg.profit)
        /\ arg.type = "snapshot" =>
               /\ result[1].record[1].balance = AmountOf(arg.balance)
               /\ result[1].record[1].equity = AmountOf(arg.equity)
               /\ result[1].record[1].floating = AmountOf(arg.floating)

\* C17: when a record's own closed_at or timestamp is missing or cannot be
\* parsed, the normalised record takes the time of its log line and no error
\* is raised; when it can be parsed, the record's own value is used (here
\* for records whose numeric fields are absent or numbers).
C17_TimestampFallback ==
    (/\ called = "ingest"
     /\ AmountReadable(arg.volume) /\ AmountReadable(arg.profit)
     /\ AmountReadable(arg.balance) /\ AmountReadable(arg.equity)
     /\ AmountReadable(arg.floating)) =>
        /\ ~result[1].raised
        /\ LET own == OwnTime(arg)
               expected == IF own.k = "iso" THEN own.n ELSE arg.log_timestamp
           IN  IF arg.type = "trade"
               THEN result[1].record[1].closed_at = expected
               ELSE result[1].record[1].timestamp = expected

----------------------------------------------------------------------------
(* Properties of the bootstrap importer *)

Ascending(keys) == \A i \in 1..(Len(keys) - 1) : keys[i] < keys[i + 1]

\* C14: the history the bootstrap importer writes, and the history after any
\* number of later incremental merges, has its trades ascending by closed_at
\* with unique tickets and its snapshots ascending by timestamp with no two
\* snapshots sharing a timestamp.
C14_BootstrapCanonical ==
    ~fromEmpty =>
        /\ NonDecreasing(ClosedAts(hist.trades))
        /\ UniqueKeys(TicketsOf(hist.trades))
        /\ Ascending(Timestamps(hist.snapshots))

SameFields(entry, trade) ==
    /\ entry.ticket = trade.ticket
    /\ entry.symbol = trade.symbol
    /\ entry.volume = trade.volume
    /\ entry.profit = trade.profit
    /\ entry.order_type = trade.order_type
    /\ entry.comment = trade.comment
    /\ entry.opened_at = trade.opened_at
    /\ entry.closed_at = trade.closed_at

\* C15: merge_trades over the lists in order yields one entry per non-empty
\* ticket, with the fields of the last record that has the ticket, leaves out
\* the entries without a close time, and is ascending by closed_at.
C15_BulkMerge ==
    called = "merge_trades" =>
        LET all == BulkList(arg.first, 1) \o BulkList(arg.second, 2)
            merged == result[1]
            Last(t) == CHOOSE k \in 1..Len(all) :
                           /\ all[k].ticket = t
                           /\ \A j \in (k + 1)..Len(all) : all[j].ticket # t
        IN  /\ UniqueKeys(TicketsOf(merged))
            /\ NonDecreasing(ClosedAts(merged))
            /\ \A i \in 1..Len(merged) :
                   /\ merged[i].ticket # ""
                   /\ merged[i].closed_at # None
                   /\ merged[i].ticket \in Range(TicketsOf(all))
                   /\ SameFields(merged[i], all[Last(merged[i].ticket)])
            /\ \A t \in Range(TicketsOf(all)) \ {""} :
                   all[Last(t)].closed_at # None => t \in Range(TicketsOf(merged))

\* the second list repeated ticket "1" of the first with another close time
\* and also held ticket "2": the entry of "1" is the record of the second
\* list and stands after "2"
C15_Witness ==
    /\ called = "merge_trades"
    /\ arg.first = << 2 >>
    /\ arg.second = << 1, 4 >>
    /\ TicketsOf(result[1]) = << "2", "1" >>
    /\ result[1][2].profit = 21 * Unit
    /\ result[1][2].closed_at = Now0 - Day

----------------------------------------------------------------------------
(* Properties of the symbol groups and of the best and worst trades *)

\* C18: in the per-symbol ranking every trade whose symbol is absent or null
\* is accumulated in the group named "UNKWN".
C18_UnknownSymbolGroup ==
    aggPc = "done" =>
        LET groups == ranked_symbols(aggTrades)
            nameless == {i \in 1..Len(aggTrades) :
                            aggTrades[i].symbol \in {NULL, ABSENT}}
        IN  nameless # {} =>
                \E k \in 1..Len(groups) :
                    /\ groups[k].symbol = "UNKWN"
                    /\ groups[k].trades = Cardinality(nameless)
                    /\ report[1].top_symbols[k] = groups[k]

\* the first trade among those of idx whose profit is extreme
FirstExtreme(trades, idx, i, sign) ==
    /\ i \in idx
    /\ \A j \in idx : sign * trades[j].profit <= sign * trades[i].profit
    /\ \A j \in idx : j < i => sign * trades[j].profit < sign * trades[i].profit

Selected(summary, trades, idx, sign) ==
    IF idx = {} THEN summary = << >>
    ELSE /\ Len(summary) = 1
         /\ "comment" \notin DOMAIN summary[1]
         /\ \E i \in idx :
                /\ FirstExtreme(trades, idx, i, sign)
                /\ summary[1].ticket = trades[i].ticket
                /\ summary[1].profit = round(trades[i].profit, 2)

\* C19: in every window best_trade is the trade of the window with the
\* greatest profit and worst_trade the one with the least, among equals the
\* earliest in the time-ascending list; both are null for an empty window;
\* neither summary has the comment field.
C19_BestWorst ==
    aggPc = "done" =>
        \A w \in 1..Len(WINDOWS) :
            LET summary == report[1].windows[WINDOWS[w].key]
                idx == ClosedSince(aggTrades, aggNow, WINDOWS[w].days)
            IN  /\ Selected(summary.best_trade, aggTrades, idx, 1)
                /\ Selected(summary.worst_trade, aggTrades, idx, 0 - 1)

\* two trades with the profit 100 stand in the window of 365 days, the one
\* that closed first is both best and worst, and the window of 7 days is
\* empty
C19_Witness ==
    /\ aggPc = "done"
    /\ TicketsOf(aggTrades) = << "15", "14" >>
    /\ report[1].windows["365d"].trades = 2
    /\ report[1].windows["365d"].best_trade[1].ticket = "15"
    /\ report[1].windows["365d"].worst_trade[1].ticket = "15"
    /\ report[1].windows["7d"].best_trade = << >>
    /\ report[1].windows["7d"].worst_trade = << >>

----------------------------------------------------------------------------
(* Properties of the two ingestion paths *)

\* C20: for a log whose trade records have distinct non-empty tickets, the
\* trades the bootstrap importer stores equal, field for field with tp_label
\* and sl_label, the trades merge_history stores from the same log into an
\* empty history, and so do their exit classifications.
C20_PathsAgree ==
    called = "both" =>
        /\ result[1] = result[2]
        /\ Len(result[1]) = Len(result[2]) =>
               \A i \in 1..Len(result[1]) :
                   determine_exit_type([result[1][i] EXCEPT !.comment = NULL]
                                           @@ [exit_reason |-> NULL])
                       = determine_exit_type([result[2][i] EXCEPT !.comment = NULL]
                                                 @@ [exit_reason |-> NULL])

----------------------------------------------------------------------------
(* Properties of the exit_reason field *)

\* the exit_type entries of a list of trade summaries
ExitTypes(list) == [i \in 1..Len(list) |-> list[i].exit_type]

\* the same classification in the best and the worst trade of every window
SameWindowExits(p, q) ==
    \A w \in 1..Len(WINDOWS) :
        /\ ExitTypes(p.windows[WINDOWS[w].key].best_trade)
               = ExitTypes(q.windows[WINDOWS[w].key].best_trade)
        /\ ExitTypes(p.windows[WINDOWS[w].key].worst_trade)
               = ExitTypes(q.windows[WINDOWS[w].key].worst_trade)

\* materialised trades that agree on tp_label, sl_label and comment are
\* classified alike
ByLabelsAndComment(trades) ==
    \A i, j \in 1..Len(trades) :
        /\ trades[i].tp_label = trades[j].tp_label
        /\ trades[i].sl_label = trades[j].sl_label
        /\ trades[i].comment = trades[j].comment
        => determine_exit_type(trades[i]) = determine_exit_type(trades[j])

\* C21: two runs from the same history file on logs whose records differ in
\* nothing but exit_reason store the same history and report the same
\* exit_type for every trade of recent_trades and for the best and the worst
\* trade of every window; the stored trades carry no exit_reason, and the
\* class of a materialised trade is a function of its tp_label, sl_label and
\* comment.
C21_ReasonNotPersisted ==
    called = "both" =>
        /\ result[1].history = result[2].history
        /\ result[1].payload.history = result[2].payload.history
        /\ ExitTypes(result[1].payload.recent_trades)
               = ExitTypes(result[2].payload.recent_trades)
        /\ SameWindowExits(result[1].payload, result[2].payload)
        /\ \A r \in 1..2 :
               /\ \A i \in 1..Len(result[r].history.trades) :
                      "exit_reason" \notin DOMAIN result[r].history.trades[i]
               /\ \A i \in 1..Len(result[r].trades) :
                      result[r].trades[i].exit_reason = NULL
        /\ ByLabelsAndComment(result[1].trades \o result[2].trades)

\* ticket "31", which carries no label and no comment, came with a TP reason
\* in the first log and an SL reason in the second; both runs list it as a
\* manual exit, in recent_trades and as the best trade of the last week
C21_Witness ==
    /\ called = "both"
    /\ \E i \in 1..Len(arg.log) :
           /\ ReasonEntries[arg.log[i]].ticket = Txt("31")
           /\ arg.first[i] = "DEAL_REASON_TP"
           /\ arg.second[i] = "deal_reason_sl"
    /\ \A r \in 1..2 :
           /\ \E i \in 1..Len(result[r].payload.recent_trades) :
                  /\ result[r].payload.recent_trades[i].ticket = "31"
                  /\ result[r].payload.recent_trades[i].exit_type = "manual"
           /\ result[r].payload.windows["7d"].best_trade[1].ticket = "31"
           /\ result[r].payload.windows["7d"].best_trade[1].exit_type = "manual"

====
